---- MODULE Spec2Model ----
(***************************************************************************)
(* A model of brainfuck-interpreter.py: the recursive-descent parser with  *)
(* run-length merging (parse_brainfuck) and the tree-walking execution     *)
(* engine (execute_instruction / brainfuck_execute) over an execution      *)
(* context (tape, tape_index, tape_size, should_stop, handlers).           *)
(*                                                                         *)
(* Source text is a sequence of one-character strings.  Python indices are *)
(* kept 0-based as in the source: code[index] is written code[index + 1].  *)
(***************************************************************************)
EXTENDS Integers, Sequences, FiniteSets, TLC

\* ------------------------------------------------------------------------
\* Bounds of the model
\* ------------------------------------------------------------------------
\* most units (command-line arguments, or lines typed) of one process
MaxUnits == 2
\* longest source text enumerated exhaustively
MaxLen == 3
\* largest tape size a context is constructed with
MaxTape == 2
\* handler calls recorded before the log stops the run
MaxCalls == 4
\* loop-body passes counted; the count stays at this number from then on
MaxPasses == 256

\* ------------------------------------------------------------------------
\* Constants of the program
\* ------------------------------------------------------------------------
TOKEN_PLUS       == "+"
TOKEN_MINUS      == "-"
TOKEN_NEXT       == ">"
TOKEN_PREVIOUS   == "<"
TOKEN_OUTPUT     == "."
TOKEN_INPUT      == ","
TOKEN_LOOP_START == "["
TOKEN_LOOP_END   == "]"
TOKEN_BREAK      == "#"

\* the tuple of recognised tokens tested on lines 139-140
Tokens ==
  {TOKEN_PLUS, TOKEN_MINUS, TOKEN_NEXT, TOKEN_PREVIOUS, TOKEN_OUTPUT,
   TOKEN_INPUT, TOKEN_LOOP_START, TOKEN_LOOP_END, TOKEN_BREAK}

\* one character that is no token stands for every commentary character
CommentChar == "a"

\* the modulus of cell arithmetic
CellModulus == 256

\* ------------------------------------------------------------------------
\* BrainfuckInstruction
\* ------------------------------------------------------------------------
\* loop is the body of a '[' instruction; the empty sequence stands for the
\* None of every other instruction
BrainfuckInstruction(token, difference, loop) ==
  [token |-> token, difference |-> difference, loop |-> loop]

\* ------------------------------------------------------------------------
\* parse_brainfuck
\* ------------------------------------------------------------------------
\* a normal return: (instructions, index)
ParseReturn(instructions, index) ==
  [raised |-> "", position |-> -1, instructions |-> instructions, index |-> index]

\* a raised BrainfuckParseError: no instruction list is returned
ParseRaise(message, position) ==
  [raised |-> message, position |-> position, instructions |-> <<>>, index |-> -1]

UnexpectedLoopEnd == "Unexpected ']' encountered"
UnmatchedLoopStart == "Unmatched '[' detected"

\* runs in which '.' and ',' are taken for one class
RunClassMixed(c) ==
  IF c \in {TOKEN_PLUS, TOKEN_MINUS} THEN {TOKEN_PLUS, TOKEN_MINUS}
  ELSE IF c \in {TOKEN_NEXT, TOKEN_PREVIOUS} THEN {TOKEN_NEXT, TOKEN_PREVIOUS}
  ELSE {TOKEN_OUTPUT, TOKEN_INPUT}

\* the characters the inner while loop of a run keeps consuming after c
RunClass(c) ==
  IF c \in {TOKEN_PLUS, TOKEN_MINUS} THEN {TOKEN_PLUS, TOKEN_MINUS}
  ELSE IF c \in {TOKEN_NEXT, TOKEN_PREVIOUS} THEN {TOKEN_NEXT, TOKEN_PREVIOUS}
  ELSE {c}

\* a run that counts every character of its class up
RunStepIgnoringSign(c, d, diff) == diff + 1

\* one step of the run's difference
RunStep(c, d, diff) == IF d = c THEN diff + 1 ELSE diff - 1

\* the inner while loops: fold the run that starts with c, from index on
RECURSIVE MergeRun(_, _, _, _, _)
MergeRun(code, index, end, c, diff) ==
  IF index < end /\ code[index + 1] \in RunClass(c)
  THEN MergeRun(code, index + 1, end, c, RunStep(c, code[index + 1], diff))
  ELSE [diff |-> diff, index |-> index]

\* a ']' that returns without looking at inside_loop
LoopEndUnchecked(instructions, index, inside_loop) ==
  ParseReturn(instructions, index)

\* what the parser does at ']'
LoopEnd(instructions, index, inside_loop) ==
  IF ~inside_loop
  THEN ParseRaise(UnexpectedLoopEnd, index - 1)
  ELSE ParseReturn(instructions, index)

\* what the parser does when the while loop ends at end of input
EndOfInput(instructions, index, inside_loop) ==
  IF inside_loop
  THEN ParseRaise(UnmatchedLoopStart, -1)
  ELSE ParseReturn(instructions, index)

RECURSIVE parse_brainfuck(_, _, _, _, _)

\* a character that is no token ends the while loop (break for continue)
CommentaryEndsParse(code, index, end, inside_loop, instructions) ==
  EndOfInput(instructions, index, inside_loop)

\* a character that is no token: continue, with the next character
Commentary(code, index, end, inside_loop, instructions) ==
  parse_brainfuck(code, index, end, inside_loop, instructions)

\* a loop whose body is added to the enclosing list (extend for append)
LoopStartSpliced(instructions, loop_instructions) ==
  instructions \o loop_instructions

\* what the parser appends when the recursive call for a '[' has returned
LoopStart(instructions, loop_instructions) ==
  Append(instructions,
         BrainfuckInstruction(TOKEN_LOOP_START, 1, loop_instructions))

\* the outer while loop; instructions is the list built so far, and index
\* is already past the character c (index += 1)
parse_brainfuck(code, index, end, inside_loop, instructions) ==
  IF ~(index < end)
  THEN EndOfInput(instructions, index, inside_loop)
  ELSE
    LET c == code[index + 1]
        i == index + 1
    IN
    IF c \notin Tokens
    THEN Commentary(code, i, end, inside_loop, instructions)
    ELSE IF c = TOKEN_LOOP_START
    THEN LET r == parse_brainfuck(code, i, end, TRUE, <<>>)
         IN IF r.raised # ""
            THEN r
            ELSE parse_brainfuck(code, r.index, end, inside_loop,
                   LoopStart(instructions, r.instructions))
    ELSE IF c = TOKEN_LOOP_END
    THEN LoopEnd(instructions, i, inside_loop)
    ELSE IF c \in {TOKEN_PLUS, TOKEN_MINUS, TOKEN_NEXT, TOKEN_PREVIOUS,
                   TOKEN_OUTPUT, TOKEN_INPUT}
    THEN LET m == MergeRun(code, i, end, c, 1)
         IN parse_brainfuck(code, m.index, end, inside_loop,
              Append(instructions, BrainfuckInstruction(c, m.diff, <<>>)))
    ELSE IF c = TOKEN_BREAK
    THEN parse_brainfuck(code, i, end, inside_loop,
           Append(instructions, BrainfuckInstruction(c, 1, <<>>)))
    ELSE parse_brainfuck(code, i, end, inside_loop, instructions)

parse_string(code) == parse_brainfuck(code, 0, Len(code), FALSE, <<>>)

\* ------------------------------------------------------------------------
\* Inputs
\* ------------------------------------------------------------------------
Alphabet == Tokens \cup {CommentChar}

\* every source text of at most n characters
SourcesUpTo(n) == UNION {[1..k -> Alphabet] : k \in 0..n}

\* longer programs: loops with bodies, nested loops, faults inside loops
Fixtures ==
  { <<"+", "[", ">", "+", "<", "-", "]">>,
    <<"+", "[", "[", "<", "]", "]">>,
    <<"+", "[", "[", "-", ">", "]", "]">>,
    <<"+", "+", "[", ".", ".", "-", "]">>,
    <<",", "[", ".", "[", "-", "]", "]">>,
    <<"<", ">", ">", "+">>,
    <<"+", "[", ">", "<", "<", "]">>,
    <<"-", "[", ",", ",", "#", "]", "+">>,
    <<"[", "[", "+", "]", "]">>,
    <<"-", "[", "+", "[", "-", "]", "]", ">">> }

Sources == SourcesUpTo(MaxLen) \cup Fixtures

\* what an input handler returns: '' at end of stream, or one character
EndOfStream == ""
InputUnits == {EndOfStream, "A", "U+00FF", "U+0100"}

\* ord() of the characters the handler can return
ord(ch) ==
  CASE ch = "A" -> 65
    [] ch = "U+00FF" -> 255
    [] ch = "U+0100" -> 256

\* ------------------------------------------------------------------------
\* State
\* ------------------------------------------------------------------------
VARIABLES
  code,         \* the source text given to run_code
  parsed,       \* what parse_string returned or raised
  tape,         \* context.tape
  tape_index,   \* context.tape_index
  tape_size,    \* context.tape_size
  should_stop,  \* context.should_stop
  stack,        \* the active brainfuck_execute calls, innermost last
  status,       \* where run_code is, or how it ended
  error,        \* the message of the exception that ended the run
  calls,        \* the handler calls made so far, in order
  dump,         \* the three lines the last '#' printed
  entry,        \* the tape and pointer brainfuck_execute was called with
  passes,       \* the loop-body passes started, counted up to MaxPasses
  session,      \* main: the units given, those run so far and how they ended
  ref           \* a symbol-at-a-time interpreter run on the same source

vars ==
  <<code, parsed, tape, tape_index, tape_size, should_stop, stack, status,
    error, calls, dump, entry, passes, session, ref>>

context == <<tape, tape_index, tape_size, should_stop>>

\* ------------------------------------------------------------------------
\* BrainfuckExecutionContext
\* ------------------------------------------------------------------------
\* [0] * tape_size
ZeroTape(size) == [i \in 0..(size - 1) |-> 0]

\* Python list indexing: an index in -len..-1 counts from the end, and an
\* index outside -len..len-1 raises IndexError
InRange(index, size) == -size <= index /\ index < size
PyIndex(index, size) == IF index < 0 THEN index + size ELSE index

\* context.tape[context.tape_index], where it is in range
Cell == tape[PyIndex(tape_index, tape_size)]

\* ------------------------------------------------------------------------
\* brainfuck_execute: one frame per active call
\* ------------------------------------------------------------------------
\* pc is the position of the for loop in instructions (from 1); rep is 0 at
\* the head of the for loop and counts the repetitions made inside the
\* current instruction otherwise
Frame(instructions) == [instructions |-> instructions, pc |-> 1, rep |-> 0]

Top == stack[Len(stack)]
AtEnd == Top.pc > Len(Top.instructions)
Cur == Top.instructions[Top.pc]

\* some call of brainfuck_execute is active
Running == stack # <<>>

\* the stack with the innermost frame changed
WithTop(frame) == [stack EXCEPT ![Len(stack)] = frame]
\* the current instruction is finished: the for loop goes to the next one
Advance == WithTop([Top EXCEPT !.pc = Top.pc + 1, !.rep = 0])

\* an exception that only the innermost call is left by
UnwindOneCall(frames) == SubSeq(frames, 1, Len(frames) - 1)

\* an exception leaves every active call: neither execute_instruction nor
\* brainfuck_execute catches anything
Unwind(frames) == <<>>

Raise(kind, message) ==
  /\ status' = kind
  /\ error' = message
  /\ stack' = Unwind(stack)

TapeOverrun(new_index, size) ==
  [message |-> "Tape overrun", attempted |-> new_index, size |-> size]
TapeUnderrun ==
  [message |-> "Tape underrun: negative tape index", attempted |-> -1, size |-> -1]
ListIndexOutOfRange ==
  [message |-> "list index out of range", attempted |-> -1, size |-> -1]
NoError == [message |-> "", attempted |-> -1, size |-> -1]

\* ------------------------------------------------------------------------
\* main: the units of one process
\* ------------------------------------------------------------------------
\* mode says which branch of main runs: "code" is one call of run_code,
\* "batch" the for loop over parsed.args, "console" the interactive console.
\* units are the arguments (or the lines typed), count of them are taken,
\* log holds how each finished unit ended, success is main's flag, exit is
\* the process exit code (-1 while the process runs), and left is the tape
\* and pointer the last finished unit left behind.
Session(mode, units, t, i) ==
  [mode |-> mode, units |-> units, count |-> 0, log |-> <<>>,
   success |-> TRUE, exit |-> -1, left |-> [tape |-> t, tape_index |-> i]]

\* the symbol-at-a-time interpreter before its first step: pc is the 0-based
\* position in the source text
Reference(t, i) ==
  [status |-> "running", pc |-> 0, tape |-> t, tape_index |-> i,
   calls |-> <<>>, passes |-> 0]

\* ------------------------------------------------------------------------
\* Init: the source text is given and a context is constructed
\* ------------------------------------------------------------------------
Init ==
  /\ code \in Sources
  /\ tape_size \in 1..MaxTape
  /\ tape = ZeroTape(tape_size)
  /\ tape_index = 0
  /\ should_stop = FALSE
  /\ parsed = ParseReturn(<<>>, 0)
  /\ stack = <<>>
  /\ status = "start"
  /\ error = NoError
  /\ calls = <<>>
  /\ dump = <<>>
  /\ entry = [tape |-> tape, tape_index |-> tape_index]
  /\ passes = 0
  /\ session = Session("code", <<code>>, tape, tape_index)
  /\ ref = Reference(tape, tape_index)

\* ------------------------------------------------------------------------
\* run_code: parse, then execute
\* ------------------------------------------------------------------------
Parse ==
  /\ status = "start"
  /\ parsed' = parse_string(code)
  /\ status' = IF parsed'.raised # "" THEN "BrainfuckParseError" ELSE "parsed"
  /\ UNCHANGED <<session, ref>>
  /\ UNCHANGED <<code, tape, tape_index, tape_size, should_stop, stack, error,
                 calls, dump, entry, passes>>

\* brainfuck_execute(instructions, context) is called; the caller owns the
\* context and may have set its flag
Execute ==
  /\ status = "parsed"
  /\ \E stop \in BOOLEAN : should_stop' = (should_stop \/ stop)
  /\ stack' = <<Frame(parsed.instructions)>>
  /\ status' = "running"
  /\ entry' = [tape |-> tape, tape_index |-> tape_index]
  /\ passes' = 0
  /\ UNCHANGED <<session, ref>>
  /\ UNCHANGED <<code, parsed, tape, tape_index, tape_size, error, calls, dump>>

\* the for loop ends (no instruction left, or the flag is set: break) and
\* the call returns
Return ==
  /\ Running
  /\ Top.rep = 0
  /\ AtEnd \/ should_stop
  /\ stack' = SubSeq(stack, 1, Len(stack) - 1)
  /\ status' = IF Len(stack) = 1 THEN "done" ELSE status
  /\ UNCHANGED <<session, ref>>
  /\ UNCHANGED <<code, parsed, context, error, calls, dump, entry, passes>>

\* ------------------------------------------------------------------------
\* execute_instruction
\* ------------------------------------------------------------------------
\* a for loop that never looks at the flag
ExecutingIgnoringFlag(token) ==
  /\ Running
  /\ ~AtEnd
  /\ Cur.token = token

\* the instruction at the for loop's position is being executed: the for
\* loop saw the flag clear (rep = 0), or the instruction is under way
Executing(token) ==
  /\ Running
  /\ ~AtEnd
  /\ Cur.token = token
  /\ Top.rep > 0 \/ ~should_stop

\* an increment without the modulus
IncrementCellNoWrap(value, diff) == value + diff

\* cell arithmetic of '+' and '-'
IncrementCell(value, diff) == (value + diff) % CellModulus
DecrementCell(value, diff) == (value - diff) % CellModulus

\* token == TOKEN_PLUS
ExecPlus ==
  /\ Executing(TOKEN_PLUS)
  /\ IF InRange(tape_index, tape_size)
     THEN /\ tape' = [tape EXCEPT ![PyIndex(tape_index, tape_size)] =
                        IncrementCell(Cell, Cur.difference)]
          /\ stack' = Advance
          /\ UNCHANGED <<status, error>>
     ELSE /\ Raise("IndexError", ListIndexOutOfRange)
          /\ UNCHANGED tape
  /\ UNCHANGED <<session, ref>>
  /\ UNCHANGED <<code, parsed, tape_index, tape_size, should_stop, calls, dump,
                 entry, passes>>

\* token == TOKEN_MINUS
ExecMinus ==
  /\ Executing(TOKEN_MINUS)
  /\ IF InRange(tape_index, tape_size)
     THEN /\ tape' = [tape EXCEPT ![PyIndex(tape_index, tape_size)] =
                        DecrementCell(Cell, Cur.difference)]
          /\ stack' = Advance
          /\ UNCHANGED <<status, error>>
     ELSE /\ Raise("IndexError", ListIndexOutOfRange)
          /\ UNCHANGED tape
  /\ UNCHANGED <<session, ref>>
  /\ UNCHANGED <<code, parsed, tape_index, tape_size, should_stop, calls, dump,
                 entry, passes>>

\* the bounds tests of the two moves
Overruns(new_index, size) == new_index >= size
Underruns(new_index) == new_index < 0

\* token == TOKEN_NEXT
ExecNext ==
  /\ Executing(TOKEN_NEXT)
  /\ LET new_index == tape_index + Cur.difference
     IN IF Overruns(new_index, tape_size)
        THEN /\ Raise("BrainfuckRuntimeError", TapeOverrun(new_index, tape_size))
             /\ UNCHANGED tape_index
        ELSE /\ tape_index' = new_index
             /\ stack' = Advance
             /\ UNCHANGED <<status, error>>
  /\ UNCHANGED <<session, ref>>
  /\ UNCHANGED <<code, parsed, tape, tape_size, should_stop, calls, dump,
                 entry, passes>>

\* token == TOKEN_PREVIOUS
ExecPrevious ==
  /\ Executing(TOKEN_PREVIOUS)
  /\ LET new_index == tape_index - Cur.difference
     IN IF Underruns(new_index)
        THEN /\ Raise("BrainfuckRuntimeError", TapeUnderrun)
             /\ UNCHANGED tape_index
        ELSE /\ tape_index' = new_index
             /\ stack' = Advance
             /\ UNCHANGED <<status, error>>
  /\ UNCHANGED <<session, ref>>
  /\ UNCHANGED <<code, parsed, tape, tape_size, should_stop, calls, dump,
                 entry, passes>>

\* one more repetition of the for loop of '.' and ',' is made: go on with
\* the instruction while repetitions are left
Repeated ==
  IF Top.rep + 1 < Cur.difference
  THEN WithTop([Top EXCEPT !.rep = Top.rep + 1])
  ELSE Advance

OutputCall(value) == [handler |-> "output", value |-> value, unit |-> ""]
InputCall(unit) == [handler |-> "input", value |-> -1, unit |-> unit]

\* token == TOKEN_OUTPUT: one repetition, one call of context.output_handler
\* with the cell as it is now; a handler may set the context's flag
ExecOutput ==
  /\ Executing(TOKEN_OUTPUT)
  /\ Len(calls) < MaxCalls
  /\ IF ~(Top.rep < Cur.difference)
     THEN /\ stack' = Advance
          /\ UNCHANGED <<status, error, calls, should_stop>>
     ELSE IF InRange(tape_index, tape_size)
     THEN /\ calls' = Append(calls, OutputCall(Cell))
          /\ \E stop \in BOOLEAN : should_stop' = (should_stop \/ stop)
          /\ stack' = Repeated
          /\ UNCHANGED <<status, error>>
     ELSE /\ Raise("IndexError", ListIndexOutOfRange)
          /\ UNCHANGED <<calls, should_stop>>
  /\ UNCHANGED <<session, ref>>
  /\ UNCHANGED <<code, parsed, tape, tape_index, tape_size, dump, entry, passes>>

\* 0 if ch == '' else ord(ch)
StoredUnit(ch) == IF ch = EndOfStream THEN 0 ELSE ord(ch)

\* token == TOKEN_INPUT: one repetition, one call of context.input_handler,
\* then the store into the cell
ExecInput ==
  /\ Executing(TOKEN_INPUT)
  /\ Len(calls) < MaxCalls
  /\ IF ~(Top.rep < Cur.difference)
     THEN /\ stack' = Advance
          /\ UNCHANGED <<status, error, calls, should_stop, tape>>
     ELSE \E ch \in InputUnits, stop \in BOOLEAN :
          /\ calls' = Append(calls, InputCall(ch))
          /\ should_stop' = (should_stop \/ stop)
          /\ IF InRange(tape_index, tape_size)
             THEN /\ tape' = [tape EXCEPT ![PyIndex(tape_index, tape_size)] =
                                StoredUnit(ch)]
                  /\ stack' = Repeated
                  /\ UNCHANGED <<status, error>>
             ELSE /\ Raise("IndexError", ListIndexOutOfRange)
                  /\ UNCHANGED tape
  /\ UNCHANGED <<session, ref>>
  /\ UNCHANGED <<code, parsed, tape_index, tape_size, dump, entry, passes>>

Max(a, b) == IF a >= b THEN a ELSE b
Min(a, b) == IF a <= b THEN a ELSE b

\* a loop that stops one short
LoopConditionOffByOne(value) == value > 1

\* the condition of the while loop of '['
LoopCondition(value) == value # 0

\* token == TOKEN_LOOP_START: the while condition is tested, on entry and
\* after each return of the body's brainfuck_execute
ExecLoopStart ==
  /\ Executing(TOKEN_LOOP_START)
  /\ IF ~InRange(tape_index, tape_size)
     THEN /\ Raise("IndexError", ListIndexOutOfRange)
          /\ UNCHANGED passes
     ELSE IF LoopCondition(Cell)
     THEN /\ stack' = Append(WithTop([Top EXCEPT !.rep = 1]), Frame(Cur.loop))
          /\ passes' = Min(passes + 1, MaxPasses)
          /\ UNCHANGED <<status, error>>
     ELSE /\ stack' = Advance
          /\ UNCHANGED <<status, error, passes>>
  /\ UNCHANGED <<session, ref>>
  /\ UNCHANGED <<code, parsed, context, calls, dump, entry>>

\* range(low, high) as a sequence
Range(low, high) == [k \in 1..(high - low) |-> low + k - 1]

\* the window of '#': at most 21 cells from 10 before the pointer
BreakLow == Max(0, tape_index - 10)
BreakHigh == Min(tape_size, BreakLow + 21)

\* token == TOKEN_BREAK: three lines are printed, the context is untouched
ExecBreak ==
  /\ Executing(TOKEN_BREAK)
  /\ LET window == Range(BreakLow, BreakHigh)
     IN dump' = << window,
                   [k \in DOMAIN window |-> tape[window[k]]],
                   [k \in DOMAIN window |->
                      IF window[k] = tape_index THEN "^" ELSE " "] >>
  /\ stack' = Advance
  /\ UNCHANGED <<session, ref>>
  /\ UNCHANGED <<code, parsed, context, status, error, calls, entry, passes>>

Next ==
  \/ Parse
  \/ Execute
  \/ Return
  \/ ExecPlus
  \/ ExecMinus
  \/ ExecNext
  \/ ExecPrevious
  \/ ExecOutput
  \/ ExecInput
  \/ ExecLoopStart
  \/ ExecBreak

Spec == Init /\ [][Next]_vars

\* the interpreter is one thread that goes on while it has a step to take
SpecFair == Init /\ [][Next]_vars /\ WF_vars(Next)

\* ------------------------------------------------------------------------
\* A second specification: one loop program run on a context that earlier
\* executions left behind (a context may be reused, as the console does),
\* so the current cell holds any value
\* ------------------------------------------------------------------------
LoopProgram == <<"[", ">", "+", "<", "-", "]">>

LoopSources ==
  { LoopProgram,
    <<"[", ">", "]", ".", ",", "#">> }

CellValues == 0..(CellModulus - 1)
\* what the cells other than the current one hold
OtherCells == {200}

InitLoop ==
  /\ code \in LoopSources
  /\ tape_size \in 1..MaxTape
  /\ tape_index \in 0..(tape_size - 1)
  /\ \E v \in CellValues, w \in OtherCells :
       tape = [i \in 0..(tape_size - 1) |-> IF i = tape_index THEN v ELSE w]
  /\ should_stop = FALSE
  /\ parsed = ParseReturn(<<>>, 0)
  /\ stack = <<>>
  /\ status = "start"
  /\ error = NoError
  /\ calls = <<>>
  /\ dump = <<>>
  /\ entry = [tape |-> tape, tape_index |-> tape_index]
  /\ passes = 0
  /\ session = Session("code", <<code>>, tape, tape_index)
  /\ ref = Reference(tape, tape_index)

SpecLoop == InitLoop /\ [][Next]_vars

\* ------------------------------------------------------------------------
\* main: several arguments, or the interactive console
\* ------------------------------------------------------------------------
\* the units a process is given: the empty text, parse errors, tape
\* underrun and overrun, a pointer left outside the tape, input and output,
\* a loop
Units ==
  { <<>>,
    <<"+", "<">>,
    <<"-", ">">>,
    <<"]">>,
    <<"[">>,
    <<">", "<", "<">>,
    <<"<", ">", ">", "+">>,
    <<",", ".">>,
    <<"+", "[", "-", "]", "#">> }

UnitLists == UNION {[1..n -> Units] : n \in 1..MaxUnits}

\* a context constructed anew for every unit
ConstructedPerUnit(mode) ==
  [tape |-> ZeroTape(tape_size), tape_index |-> 0, should_stop |-> FALSE]

\* the context the next unit runs on: run_code constructs one for its unit,
\* the console constructs one before its loop and passes it to every line
UnitContext(mode) ==
  IF mode = "console"
  THEN [tape |-> tape, tape_index |-> tape_index, should_stop |-> should_stop]
  ELSE [tape |-> ZeroTape(tape_size), tape_index |-> 0, should_stop |-> FALSE]

InitMain ==
  /\ code = <<>>
  /\ tape_size \in 1..MaxTape
  /\ tape = ZeroTape(tape_size)
  /\ tape_index = 0
  /\ should_stop = FALSE
  /\ parsed = ParseReturn(<<>>, 0)
  /\ stack = <<>>
  /\ status = "prompt"
  /\ error = NoError
  /\ calls = <<>>
  /\ dump = <<>>
  /\ entry = [tape |-> tape, tape_index |-> tape_index]
  /\ passes = 0
  /\ \E mode \in {"batch", "console"}, units \in UnitLists :
       session = Session(mode, units, tape, tape_index)
  /\ ref = Reference(tape, tape_index)

\* the for loop of main takes the next argument, or the console reads the
\* next line; the console skips a blank line (continue)
NextUnit ==
  /\ status = "prompt"
  /\ session.count < Len(session.units)
  /\ LET unit == session.units[session.count + 1]
         blank == session.mode = "console" /\ unit = <<>>
         ctx == UnitContext(session.mode)
     IN  /\ session' = [session EXCEPT !.count = @ + 1]
         /\ code' = IF blank THEN code ELSE unit
         /\ status' = IF blank THEN "prompt" ELSE "start"
         /\ tape' = ctx.tape
         /\ tape_index' = ctx.tape_index
         /\ should_stop' = ctx.should_stop
  /\ parsed' = ParseReturn(<<>>, 0)
  /\ error' = NoError
  /\ UNCHANGED <<tape_size, stack, calls, dump, entry, passes, ref>>

\* the unit is over: it ran to its end, or its BrainfuckParseError or
\* BrainfuckRuntimeError was caught and logged; run_code returns False for
\* either error and main clears its flag
EndOfUnit ==
  /\ status \in {"done", "BrainfuckParseError", "BrainfuckRuntimeError"}
  /\ session' = [session EXCEPT
                   !.log = Append(@, status),
                   !.success = IF session.mode = "batch"
                               THEN @ /\ status = "done" ELSE @,
                   !.left = [tape |-> tape, tape_index |-> tape_index]]
  /\ status' = "prompt"
  /\ UNCHANGED <<code, parsed, context, stack, error, calls, dump, entry,
                 passes, ref>>

\* an IndexError is caught by neither except clause: it leaves the loop and
\* main, and the interpreter process ends with a traceback and exit code 1
Uncaught ==
  /\ status = "IndexError"
  /\ session' = [session EXCEPT
                   !.log = Append(@, status),
                   !.exit = 1,
                   !.left = [tape |-> tape, tape_index |-> tape_index]]
  /\ status' = "crashed"
  /\ UNCHANGED <<code, parsed, context, stack, error, calls, dump, entry,
                 passes, ref>>

\* no unit is left: sys.exit(0 if success else 1), or EOFError at the
\* console's prompt, after which main returns
Exit ==
  /\ status = "prompt"
  /\ session.count = Len(session.units)
  /\ session' = [session EXCEPT
                   !.exit = IF session.mode = "batch" /\ ~session.success
                            THEN 1 ELSE 0]
  /\ status' = "exit"
  /\ UNCHANGED <<code, parsed, context, stack, error, calls, dump, entry,
                 passes, ref>>

NextMain ==
  \/ NextUnit
  \/ EndOfUnit
  \/ Uncaught
  \/ Exit
  \/ Parse
  \/ Execute
  \/ Return
  \/ ExecPlus
  \/ ExecMinus
  \/ ExecNext
  \/ ExecPrevious
  \/ ExecOutput
  \/ ExecInput
  \/ ExecLoopStart
  \/ ExecBreak

SpecMain == InitMain /\ [][NextMain]_vars

\* ------------------------------------------------------------------------
\* Properties
\* ------------------------------------------------------------------------
\* the nine symbols of the language, as the specification lists them
SymbolSet == {"+", "-", ">", "<", ".", ",", "[", "]", "#"}

ParseDone == status # "start"
ParseOk == ParseDone /\ parsed.raised = ""
\* parse_string has just returned or raised
JustParsed == status \in {"parsed", "BrainfuckParseError"}

\* the number of ch among the first k characters of s
Count(s, k, ch) == Cardinality({i \in 1..k : s[i] = ch})
\* the number of loops open after the first k characters of s
Depth(s, k) == Count(s, k, "[") - Count(s, k, "]")
Minimum(S) == CHOOSE x \in S : \A y \in S : x <= y
Maximum(S) == CHOOSE x \in S : \A y \in S : x >= y

\* a mod 256 as the non-negative remainder
ModMath(a) == CHOOSE r \in 0..255 : \E q \in -4..4 : a = 256 * q + r

\* every instruction of a tree, at every depth
RECURSIVE Flatten(_)
Flatten(instructions) ==
  IF instructions = <<>>
  THEN {}
  ELSE {Head(instructions)} \cup Flatten(Head(instructions).loop)
         \cup Flatten(Tail(instructions))

\* C1: in every state the pointer satisfies 0 <= pointer < tape size: a move
\* that would leave the tape fails instead of changing the pointer.
C1_PointerWithinTape == 0 <= tape_index /\ tape_index < tape_size

\* C2: in every state every tape cell holds an integer in 0..255, also after
\* Input, whatever unit the input handler returned.
C2_CellsAreBytes == \A i \in DOMAIN tape : tape[i] \in 0..255

\* C3: executing '+' with magnitude m on a cell in 0..255 leaves
\* (cell + m) mod 256 in it, '-' leaves (cell - m) mod 256, the result is in
\* 0..255, and the pointer and every other cell are unchanged.
C3_WrapAround ==
  [][\A token \in {TOKEN_PLUS, TOKEN_MINUS} :
       (Executing(token) /\ InRange(tape_index, tape_size) /\ Cell \in 0..255)
       => LET m == Cur.difference
              p == PyIndex(tape_index, tape_size)
              value == IF token = TOKEN_PLUS THEN Cell + m ELSE Cell - m
          IN /\ tape' = [tape EXCEPT ![p] = ModMath(value)]
             /\ tape'[p] \in 0..255
             /\ tape_index' = tape_index]_vars

\* 255 + 1 gave 0 after 0 - 1 gave 255
C3_Witness ==
  /\ code = <<"-", "a", "+">>
  /\ status = "done"
  /\ ~should_stop
  /\ tape[0] = 0

\* C4: parsing succeeds exactly when the brackets are balanced; the first
\* ']' with no open '[' raises the error naming its position, an open '[' at
\* the end of input raises the other error, and an error returns no tree.
C4_BalancedBrackets ==
  JustParsed =>
    LET n == Len(code)
        unopened == {k \in 1..n : Depth(code, k) < 0}
    IN IF unopened # {}
       THEN /\ status = "BrainfuckParseError"
            /\ parsed.raised = UnexpectedLoopEnd
            /\ parsed.position = Minimum(unopened) - 1
            /\ code[parsed.position + 1] = "]"
            /\ parsed.instructions = <<>>
       ELSE IF Depth(code, n) > 0
       THEN /\ status = "BrainfuckParseError"
            /\ parsed.raised = UnmatchedLoopStart
            /\ parsed.instructions = <<>>
       ELSE /\ status # "BrainfuckParseError"
            /\ parsed.raised = ""

\* "[]]": the second ']' has no open '['
C4_Witness ==
  /\ code = <<"[", "]", "]">>
  /\ status = "BrainfuckParseError"
  /\ parsed.raised = UnexpectedLoopEnd
  /\ parsed.position = 2

\* s without the characters that are no symbols
Strip(s) == SelectSeq(s, LAMBDA c : c \in SymbolSet)
\* the same tree, or the same kind of parse error
SameParse(a, b) == a.raised = b.raised /\ a.instructions = b.instructions
\* two symbols that one run merges
Mergeable(x, y) ==
  \/ {x, y} \subseteq {"+", "-"}
  \/ {x, y} \subseteq {">", "<"}
  \/ x = y /\ x \in {".", ","}
\* some commentary stands between two symbols that one run would merge
SplitsRun(s) ==
  \E i, j \in 1..Len(s) :
    /\ i + 1 < j
    /\ s[i] \in SymbolSet
    /\ s[j] \in SymbolSet
    /\ \A k \in (i + 1)..(j - 1) : s[k] \notin SymbolSet
    /\ Mergeable(s[i], s[j])

\* C5 as stated: parse(S) is parse(S') for S' = S without its non-symbol
\* characters, wherever they occur.
C5_CommentsIgnored == JustParsed => SameParse(parsed, parse_string(Strip(code)))

\* C5 as amended: parse(S) is parse(S') (the same tree, or the same kind of
\* parse error) when no non-symbol character stands between two symbols of
\* one mergeable class; there it ends the run.
C5_CommentsIgnoredOutsideRuns ==
  (JustParsed /\ ~SplitsRun(code))
    => SameParse(parsed, parse_string(Strip(code)))

\* "a+a" parses as "+"
C5_Witness ==
  /\ code = <<"a", "+", "a">>
  /\ ParseOk
  /\ parsed.instructions = <<BrainfuckInstruction("+", 1, <<>>)>>

\* the net of a run: each 'up' counts +1 and each 'down' -1
Net(s, up, down) == Count(s, Len(s), up) - Count(s, Len(s), down)
IsRunOf(s, up, down) == s # <<>> /\ \A i \in 1..Len(s) : s[i] \in {up, down}
NetInstruction(s, up, down) ==
  LET n == Net(s, up, down)
  IN /\ n >= 1 => parsed.instructions = <<BrainfuckInstruction(up, n, <<>>)>>
     /\ n < 0 => parsed.instructions = <<BrainfuckInstruction(down, -n, <<>>)>>

\* C6: a run of '>' and '<' with net n parses to MoveRight(n) when n >= 1
\* and to MoveLeft(-n) when n < 0, likewise '+' and '-'; no instruction but
\* a loop carries a negative magnitude.
C6_NetRunInstruction ==
  (JustParsed /\ parsed.raised = "") =>
    /\ \A instr \in Flatten(parsed.instructions) :
         instr.token # TOKEN_LOOP_START => instr.difference >= 0
    /\ IsRunOf(code, ">", "<") => NetInstruction(code, ">", "<")
    /\ IsRunOf(code, "+", "-") => NetInstruction(code, "+", "-")

\* C7: when an instruction raises a runtime error, at any loop depth, the
\* pointer and the tape stay as they were, every enclosing call is left and
\* nothing runs afterwards.
C7_RuntimeErrorAborts ==
  [][status' = "BrainfuckRuntimeError"
       => /\ tape' = tape
          /\ tape_index' = tape_index
          /\ calls' = calls
          /\ dump' = dump
          /\ stack' = <<>>]_vars

\* "+[[<]]": the underrun is raised two loops deep, the '+' stays done
C7_Witness ==
  /\ code = <<"+", "[", "[", "<", "]", "]">>
  /\ status = "BrainfuckRuntimeError"
  /\ error = TapeUnderrun
  /\ tape[0] = 1
  /\ tape_index = 0

\* brainfuck_execute has just been called and the flag is set
CalledWithStop ==
  /\ status = "running"
  /\ Len(stack) = 1
  /\ Top.pc = 1
  /\ Top.rep = 0
  /\ should_stop

\* C8: when the flag is set as execute is called, no instruction runs (no
\* handler call, tape and pointer unchanged) and the call returns normally.
C8_StopBeforeExecute ==
  [][CalledWithStop
       => /\ status' = "done"
          /\ tape' = tape
          /\ tape_index' = tape_index
          /\ calls' = calls
          /\ dump' = dump
          /\ error' = NoError]_vars

\* a program with instructions returned at once, the flag set by the caller
C8_Witness ==
  /\ status = "done"
  /\ should_stop
  /\ parsed.instructions # <<>>
  /\ calls = <<>>
  /\ tape = ZeroTape(tape_size)
  /\ tape_index = 0

\* '[>+<-]' is run with the flag clear and a cell to the right of the pointer
LoopRuns ==
  /\ code = LoopProgram
  /\ entry.tape_index + 1 < tape_size
  /\ ~should_stop

LoopResult ==
  LET p == entry.tape_index
      v == entry.tape[p]
  IN /\ passes = v
     /\ tape_index = p
     /\ tape = [entry.tape EXCEPT ![p] = 0,
                                  ![p + 1] = ModMath(entry.tape[p + 1] + v)]

\* a loop body is about to run its first instruction
BodyEntered == Len(stack) >= 2 /\ Top.pc = 1 /\ Top.rep = 0

\* what is left of a run of '[>+<-]': seven for each unit of the condition
\* cell, and the place within the present pass
LoopMeasure ==
  LET c == tape[entry.tape_index]
  IN IF Len(stack) = 1
     THEN IF AtEnd THEN 0 ELSE 7 * c + 1
     ELSE IF Top.pc <= 4 THEN 7 * c + 1 - Top.pc ELSE 7 * c + 3

\* C9: a loop body is entered only with a non-zero current cell, and
\* '[>+<-]' run on a current cell v terminates (it is never stuck, and every
\* step brings it nearer its end) after exactly v passes, with that cell 0,
\* the next cell increased by v mod 256 and the pointer back.
C9_LoopWhileNonZero ==
  /\ [](BodyEntered => (InRange(tape_index, tape_size) /\ Cell # 0))
  /\ []((LoopRuns /\ status = "done") => LoopResult)
  /\ []((LoopRuns /\ status = "running") => (passes <= entry.tape[entry.tape_index]
                                             /\ ENABLED Next))
  /\ [][(LoopRuns /\ status = "running")
          => \/ status' = "done"
             \/ /\ status' = "running"
                /\ LoopMeasure' >= 0
                /\ LoopMeasure' < LoopMeasure]_vars

\* 255 passes moved 255 into a cell that held 200
C9_Witness ==
  /\ code = LoopProgram
  /\ status = "done"
  /\ tape_size >= 2
  /\ entry.tape[0] = 255
  /\ entry.tape[1] = 200
  /\ passes = 255
  /\ tape[0] = 0
  /\ tape[1] = 199

\* the length of the run of equal characters that starts s
FirstRun(s) ==
  CHOOSE k \in 1..Len(s) :
    /\ \A i \in 1..k : s[i] = s[1]
    /\ k = Len(s) \/ s[k + 1] # s[1]
\* one instruction per maximal run of equal characters, its length as magnitude
RECURSIVE RunLengths(_)
RunLengths(s) ==
  IF s = <<>>
  THEN <<>>
  ELSE <<[token |-> s[1], difference |-> FirstRun(s), loop |-> <<>>]>>
         \o RunLengths(SubSeq(s, FirstRun(s) + 1, Len(s)))

IsInputOutput(s) == s # <<>> /\ \A i \in 1..Len(s) : s[i] \in {".", ","}
\* the value the cell holds before the k-th call: that of the last unit read
StoredBefore(k) ==
  LET reads == {j \in 1..(k - 1) : calls[j].handler = "input"}
  IN IF reads = {} THEN 0
     ELSE IF calls[Maximum(reads)].unit = "" THEN 0
     ELSE ord(calls[Maximum(reads)].unit)

\* C10: k equal '.' (or ',') parse to one instruction of magnitude k, '.'
\* and ',' never cancel; Output(m) calls the output handler m times with
\* the current cell and changes nothing; Input(m) calls the input handler m
\* times and leaves the last unit read (0 at end of stream) in the cell.
C10_InputOutputRuns ==
  (ParseDone /\ IsInputOutput(code)) =>
    /\ parsed.raised = ""
    /\ parsed.instructions = RunLengths(code)
    /\ (status = "done" /\ ~should_stop) =>
         /\ Len(calls) = Len(code)
         /\ \A k \in 1..Len(code) :
              IF code[k] = "."
              THEN calls[k] = OutputCall(StoredBefore(k))
              ELSE calls[k].handler = "input"
         /\ tape = [ZeroTape(tape_size) EXCEPT ![0] = StoredBefore(Len(code) + 1)]
         /\ tape_index = 0

\* ",..": one read of U+00FF, then two calls of the output handler with 255
C10_Witness ==
  /\ code = <<",", ".", ".">>
  /\ status = "done"
  /\ ~should_stop
  /\ Len(calls) = 3
  /\ calls[1].unit = "U+00FF"
  /\ calls[2] = OutputCall(255)
  /\ calls[3] = OutputCall(255)
  /\ tape[0] = 255

\* the interactive console is running
Console == session.mode = "console"
\* a line's BrainfuckParseError or BrainfuckRuntimeError has been raised
LineFailed == status \in {"BrainfuckParseError", "BrainfuckRuntimeError"}

\* C11: in an interactive session the tape and pointer a line starts
\* executing with are the tape and pointer the line before it left, also
\* when that line ended in a parse error (which touches neither) or in a
\* runtime error (nothing changes them from the failure on); after either
\* error the session goes on to the next line.
C11_ConsoleKeepsContext ==
  /\ [](Console /\ status = "running" => entry = session.left)
  /\ [](Console /\ status = "BrainfuckParseError"
          => tape = session.left.tape /\ tape_index = session.left.tape_index)
  /\ [](Console /\ LineFailed => ENABLED EndOfUnit)
  /\ [](Console /\ status = "prompt" => ENABLED (NextUnit \/ Exit))
  /\ [][Console /\ (status # "running" \/ status' = "BrainfuckRuntimeError")
          => tape' = tape /\ tape_index' = tape_index]_vars

\* a line starts executing on a changed tape after the line before it ended
\* in a runtime error
C11_Witness ==
  /\ Console
  /\ status = "running"
  /\ session.log # <<>>
  /\ session.log[Len(session.log)] = "BrainfuckRuntimeError"
  /\ entry.tape # ZeroTape(tape_size)
  /\ stack = <<Frame(parsed.instructions)>>
  /\ parsed.instructions # <<>>


\* main is running its for loop over the arguments
Batch == session.mode = "batch"
\* the interpreter process is over
ProcessEnded == status \in {"exit", "crashed"}
\* some unit run so far did not run to its end
SomeUnitFailed == \E k \in DOMAIN session.log : session.log[k] # "done"

\* every unit starts executing on a zeroed tape with the pointer at 0
BatchContextsFresh ==
  Batch /\ status = "running"
    => entry = [tape |-> ZeroTape(tape_size), tape_index |-> 0]
\* when the process is over every unit has been run
BatchRunsEveryUnit ==
  Batch /\ ProcessEnded => Len(session.log) = Len(session.units)
\* the exit code is 1 exactly if some unit failed
BatchExitCode ==
  Batch /\ ProcessEnded
    => session.exit = IF SomeUnitFailed THEN 1 ELSE 0

\* C12: with several units on the command line, every unit is parsed and
\* executed on its own zeroed context with the pointer at 0, a unit that
\* fails does not keep a later unit from being run, and the exit code is 1
\* if and only if some unit failed, else 0.
C12_BatchUnitsIndependent ==
  /\ BatchContextsFresh
  /\ BatchRunsEveryUnit
  /\ BatchExitCode


\* the for loop of the innermost call is at its head and finds the flag set
StopSeen == Running /\ should_stop /\ Top.rep = 0

\* C13: once the should-stop flag is set during an execute call, at every
\* loop nesting depth, the call eventually returns normally: from the for
\* loop finding the flag set (with the pointer on the tape) the run leads
\* to the end of the outermost call.
C13_StopLeadsToReturn ==
  (StopSeen /\ InRange(tape_index, tape_size)) ~> (status = "done")


\* ------------------------------------------------------------------------
\* A reference interpreter: one source symbol at a time
\* ------------------------------------------------------------------------
\* the 0-based position of the ']' that closes the '[' at 0-based position i
MatchClose(s, i) ==
  Minimum({j \in (i + 2)..Len(s) : Depth(s, j) = Depth(s, i)}) - 1
\* the 0-based position of the '[' that the ']' at 0-based position j closes
MatchOpen(s, j) ==
  Maximum({i \in 1..j : Depth(s, i - 1) = Depth(s, j + 1)}) - 1

\* the run of the parsed tree is over
MergedOver == status \in {"done", "BrainfuckRuntimeError", "IndexError"}

\* the reference's next handler call is the call the run of the parsed tree
\* made at the same place in its sequence of calls
SameCall(handler) ==
  /\ Len(ref.calls) < Len(calls)
  /\ calls[Len(ref.calls) + 1].handler = handler

\* the reference executes the symbol at ref.pc: every '>' and every '<' is
\* one move with its own bounds check, every '.' and ',' one handler call,
\* '[' tests the cell and ']' goes back to its '['.  An input call is given
\* the unit the run of the parsed tree was given at the same call, and the
\* reference stops as "diverged" at a call the tree's run did not make.  It
\* is run for the runs in which nobody set the should-stop flag.
RefStep ==
  /\ MergedOver
  /\ ~should_stop
  /\ ref.status = "running"
  /\ LET pc == ref.pc
         c == code[pc + 1]
         cell == ref.tape[ref.tape_index]
         next == [ref EXCEPT !.pc = pc + 1]
         diverged == [ref EXCEPT !.status = "diverged"]
     IN  ref' =
           IF pc >= Len(code) THEN [ref EXCEPT !.status = "done"]
           ELSE IF c = "+"
             THEN [next EXCEPT !.tape[ref.tape_index] = (cell + 1) % 256]
           ELSE IF c = "-"
             THEN [next EXCEPT !.tape[ref.tape_index] = (cell - 1) % 256]
           ELSE IF c = ">"
             THEN IF ref.tape_index + 1 >= tape_size
                  THEN [ref EXCEPT !.status = "TapeOverrun"]
                  ELSE [next EXCEPT !.tape_index = @ + 1]
           ELSE IF c = "<"
             THEN IF ref.tape_index - 1 < 0
                  THEN [ref EXCEPT !.status = "TapeUnderrun"]
                  ELSE [next EXCEPT !.tape_index = @ - 1]
           ELSE IF c = "."
             THEN IF SameCall("output")
                  THEN [next EXCEPT !.calls = Append(@, OutputCall(cell))]
                  ELSE diverged
           ELSE IF c = ","
             THEN IF SameCall("input")
                  THEN LET ch == calls[Len(ref.calls) + 1].unit
                       IN  [next EXCEPT !.tape[ref.tape_index] = StoredUnit(ch),
                                        !.calls = Append(@, InputCall(ch))]
                  ELSE diverged
           ELSE IF c = "["
             THEN IF cell = 0
                  THEN [ref EXCEPT !.pc = MatchClose(code, pc) + 1]
                  ELSE [next EXCEPT !.passes = Min(@ + 1, MaxPasses)]
           ELSE IF c = "]"
             THEN [ref EXCEPT !.pc = MatchOpen(code, pc)]
           ELSE next
  /\ UNCHANGED <<code, parsed, context, stack, status, error, calls, dump,
                 entry, passes, session>>

NextRef ==
  \/ Parse
  \/ Execute
  \/ Return
  \/ ExecPlus
  \/ ExecMinus
  \/ ExecNext
  \/ ExecPrevious
  \/ ExecOutput
  \/ ExecInput
  \/ ExecLoopStart
  \/ ExecBreak
  \/ RefStep

\* what the current cell of an initial context holds
StartCells == {0, 255}

\* a source and an initial context: a fresh one, or for the sources shorter
\* than MaxLen and the longer programs, on the largest tape, one with the
\* pointer anywhere and the current cell set
InitRef ==
  /\ code \in Sources
  /\ tape_size \in 1..MaxTape
  /\ tape_index \in 0..(tape_size - 1)
  /\ \E v \in StartCells :
       tape = [i \in 0..(tape_size - 1) |-> IF i = tape_index THEN v ELSE 0]
  /\ Len(code) = MaxLen \/ tape_size < MaxTape
       => tape_index = 0 /\ tape = ZeroTape(tape_size)
  /\ should_stop = FALSE
  /\ parsed = ParseReturn(<<>>, 0)
  /\ stack = <<>>
  /\ status = "start"
  /\ error = NoError
  /\ calls = <<>>
  /\ dump = <<>>
  /\ entry = [tape |-> tape, tape_index |-> tape_index]
  /\ passes = 0
  /\ session = Session("code", <<code>>, tape, tape_index)
  /\ ref = Reference(tape, tape_index)

\* the parsed tree is run first, then the reference on the same source,
\* tape size, initial context and input
SpecRef == InitRef /\ [][NextRef]_vars

\* how the run of the parsed tree ended, in the reference's words
Outcome ==
  IF status = "BrainfuckRuntimeError"
  THEN IF error.message = "Tape overrun" THEN "TapeOverrun" ELSE "TapeUnderrun"
  ELSE status

\* both runs are over, and no caller or handler set the should-stop flag
BothOver == MergedOver /\ ref.status # "running" /\ ~should_stop

\* no '>' stands next to a '<': every run of moves repeats one symbol
UnmixedMoves(s) ==
  \A i \in 1..(Len(s) - 1) :
    {s[i], s[i + 1]} \subseteq {">", "<"} => s[i] = s[i + 1]

\* C14 as stated: the run of the parsed tree ends with the same tape, the
\* same pointer, the same handler calls and the same outcome as the
\* reference that executes one symbol at a time.
C14_MergingPreservesBehaviour ==
  BothOver
    => /\ ref.tape = tape
       /\ ref.tape_index = tape_index
       /\ ref.calls = calls
       /\ ref.status = Outcome

\* C14 as amended: for a source whose runs of moves each repeat one symbol,
\* run with the flag never set, the run of the parsed tree ends with the
\* same tape, the same handler calls and the same outcome as the reference
\* (which makes no handler call and starts no loop pass that the tree's run
\* did not), and with the same pointer when the run completes normally.
C14_MergingPreservesUnmixedRuns ==
  /\ MergedOver /\ ~should_stop /\ UnmixedMoves(code)
       => ref.status # "diverged" /\ ref.passes <= passes
  /\ BothOver /\ UnmixedMoves(code)
       => /\ ref.tape = tape
          /\ ref.calls = calls
          /\ ref.status = Outcome
          /\ status = "done" => ref.tape_index = tape_index

\* both runs of a source with merged runs, a loop and handler calls are over
C14_Witness ==
  /\ BothOver
  /\ UnmixedMoves(code)
  /\ \E i \in DOMAIN parsed.instructions :
       parsed.instructions[i].loop # <<>>
  /\ \E x \in Flatten(parsed.instructions) : x.difference > 1
  /\ calls # <<>>
  /\ tape # ZeroTape(tape_size)


\* a source that is one run with net zero parses to one instruction, tagged
\* by the run's first symbol, with magnitude 0
ZeroNetKept(up, down) ==
  (JustParsed /\ IsRunOf(code, up, down) /\ Net(code, up, down) = 0)
    => parsed = ParseReturn(<<BrainfuckInstruction(code[1], 0, <<>>)>>,
                            Len(code))
\* a '+', '-', '>' or '<' of magnitude 0 is being executed
ExecutingZero ==
  \E token \in {TOKEN_PLUS, TOKEN_MINUS, TOKEN_NEXT, TOKEN_PREVIOUS} :
    Executing(token) /\ Cur.difference = 0
\* the step changes neither tape nor pointer and raises nothing
NoOp ==
  /\ tape' = tape
  /\ tape_index' = tape_index
  /\ status' = "running"
  /\ error' = error
\* the context is one the specification allows: the pointer on the tape and
\* the current cell a byte
OnTape == InRange(tape_index, tape_size) /\ tape_index >= 0 /\ Cell \in 0..255

\* the part of C15 that holds: on such a context an instruction of
\* magnitude 0 is a no-op
ZeroNetNoOpOnTape == [][ExecutingZero /\ OnTape => NoOp]_vars

\* C15: a maximal run of '+'/'-' or of '>'/'<' with net zero leaves one
\* instruction, tagged by the run's leading symbol, of magnitude 0, and
\* executing it is a no-op: it changes neither tape nor pointer and raises
\* no error, wherever the pointer is.
C15_ZeroNetIsNoOp ==
  /\ [](ZeroNetKept("+", "-") /\ ZeroNetKept("-", "+"))
  /\ [](ZeroNetKept(">", "<") /\ ZeroNetKept("<", ">"))
  /\ [][ExecutingZero => NoOp]_vars


\* the brackets of s are balanced
Balanced(s) ==
  /\ \A k \in 1..Len(s) : Depth(s, k) >= 0
  /\ Depth(s, Len(s)) = 0

\* the loops of a tree, at every depth, counted
RECURSIVE LoopCount(_)
LoopCount(instructions) ==
  IF instructions = <<>>
  THEN 0
  ELSE LET instr == Head(instructions)
       IN  (IF instr.token = TOKEN_LOOP_START
            THEN 1 + LoopCount(instr.loop) ELSE 0)
           + LoopCount(Tail(instructions))

\* the nesting depth of a tree: 0 without a loop
RECURSIVE TreeDepth(_)
TreeDepth(instructions) ==
  IF instructions = <<>>
  THEN 0
  ELSE LET instr == Head(instructions)
       IN  Max(IF instr.token = TOKEN_LOOP_START
               THEN 1 + TreeDepth(instr.loop) ELSE 0,
               TreeDepth(Tail(instructions)))

\* the bracket nesting depth of a source
SourceDepth(s) == Maximum({0} \cup {Depth(s, k) : k \in 1..Len(s)})

\* the tree of a source with a '[' is the tree of the text before its first
\* '[', then one loop of magnitude 1 over the tree of the text between that
\* '[' and its ']', then the tree of the text after that ']'
SplitAtFirstLoop(s, tree) ==
  LET open == Minimum({k \in 1..Len(s) : s[k] = "["})
      close == MatchClose(s, open - 1) + 1
      before == parse_string(SubSeq(s, 1, open - 1)).instructions
      between == parse_string(SubSeq(s, open + 1, close - 1)).instructions
      after == parse_string(SubSeq(s, close + 1, Len(s))).instructions
  IN  tree = before
               \o <<BrainfuckInstruction(TOKEN_LOOP_START, 1, between)>>
               \o after

\* C16: for a balanced source every '[' gives exactly one loop instruction
\* of magnitude 1 whose body is the parse of the text between the '[' and
\* its ']'; what follows the ']' is parsed into siblings of the loop, and
\* the tree's nesting depth is the source's bracket nesting depth.
C16_LoopsFollowBrackets ==
  (JustParsed /\ Balanced(code)) =>
    /\ parsed.raised = ""
    /\ \A instr \in Flatten(parsed.instructions) :
         instr.token = TOKEN_LOOP_START => instr.difference = 1
    /\ \A instr \in Flatten(parsed.instructions) :
         instr.token # TOKEN_LOOP_START => instr.loop = <<>>
    /\ LoopCount(parsed.instructions) = Count(code, Len(code), "[")
    /\ TreeDepth(parsed.instructions) = SourceDepth(code)
    /\ Count(code, Len(code), "[") > 0
         => SplitAtFirstLoop(code, parsed.instructions)

\* "-[+[-]]>": a loop in a loop, with an instruction after the last ']'
C16_Witness ==
  /\ code = <<"-", "[", "+", "[", "-", "]", "]", ">">>
  /\ status = "parsed"
  /\ parsed.instructions =
       << BrainfuckInstruction("-", 1, <<>>),
          BrainfuckInstruction("[", 1,
            << BrainfuckInstruction("+", 1, <<>>),
               BrainfuckInstruction("[", 1,
                 <<BrainfuckInstruction("-", 1, <<>>)>>) >>),
          BrainfuckInstruction(">", 1, <<>>) >>

====
